---------------------------- MODULE Spec2Model ----------------------------
(***************************************************************************)
(* The per-identity rate limiter of DesignSight (src/lib/rate-limiter.ts   *)
(* and src/lib/rate-limit-middleware.ts, both held in                      *)
(* src/src/lib/rate-limit-middleware.ts): the RateLimiterStore with its    *)
(* check / reset / cleanup operations, the multi-policy composer, the      *)
(* identity resolver and the HTTP adapter; and the pacing of the calls to   *)
(* the Gemini API (src/src/lib/gemini.ts): analyzeImageWithGemini's error  *)
(* messages, retryAnalysis, and the RateLimiter dispatch queue behind      *)
(* analyzeImageWithRateLimit.                                              *)
(*                                                                         *)
(* Time is Date.now() in milliseconds.  Strings are TLA+ strings; \o is    *)
(* JavaScript's string concatenation.  A JavaScript value that may be      *)
(* absent is a record with a "kind" field.                                 *)
(***************************************************************************)
EXTENDS Integers, Sequences, FiniteSets, TLC

VARIABLES
    now,    \* Date.now()
    store,  \* RateLimiterStore.store: Map<string, RequestLog>, as a function on its keys
    last,   \* the most recent call: its arguments and what it returned
    mon,    \* per key, a history of the calls made on it (observation only)
    pacer,  \* the RateLimiter of gemini.ts: queue, running, lastRequestTime
    tasks,  \* the closures execute() has queued, in the order of the execute calls
    retry,  \* the calls of retryAnalysis, each with its position in the loop
    reqs    \* the requests inside rateLimitMiddleware, each with its position

\* the state of the calls to the Gemini API and of the requests in flight
aiVars == <<pacer, tasks, retry, reqs>>

vars == <<now, store, last, mon, pacer, tasks, retry, reqs>>

(***************************************************************************)
(* Bounds of the model.                                                    *)
(***************************************************************************)
MaxTicks == 5

\* the clock advances in steps of half a second
TickSteps == {500}

MaxNow == MaxTicks * 500

\* the same for the runs of the composite check
MaxTicksMulti == 2

MaxNowMulti == MaxTicksMulti * 500

\* the same for the runs of the HTTP adapter
MaxTicksHttp == 1

MaxNowHttp == MaxTicksHttp * 500

(***************************************************************************)
(* JavaScript values.                                                      *)
(***************************************************************************)
Undefined == [kind |-> "undefined"]

NaN == [kind |-> "NaN"]

Num(n) == [kind |-> "number", n |-> n]

Max(a, b) == IF a >= b THEN a ELSE b

Min(a, b) == IF a <= b THEN a ELSE b

\* Math.ceil(a / b) for b > 0
CeilDiv(a, b) == -((-a) \div b)

\* if (v): a number is truthy unless it is 0 or NaN; undefined is falsy
TruthyNum(v) == v.kind = "number" /\ v.n # 0

Null == [kind |-> "null"]

\* a string value, where null or undefined may stand too
Str(s) == [kind |-> "string", s |-> s]

\* if (v): a string is truthy unless it is empty; null and undefined are falsy
TruthyStr(v) == v.kind = "string" /\ v.s # ""

Digits == <<"0", "1", "2", "3", "4", "5", "6", "7", "8", "9">>

\* Number.prototype.toString() of an integer
RECURSIVE NumberToString(_)
NumberToString(n) ==
    IF n < 0 THEN "-" \o NumberToString(-n)
    ELSE IF n < 10 THEN Digits[n + 1]
    ELSE NumberToString(n \div 10) \o Digits[(n % 10) + 1]

(***************************************************************************)
(* RateLimitConfig.  The policies are those of the repository's tests:     *)
(* windows of one and two seconds, one or two requests per window.         *)
(***************************************************************************)
Windows == {1000, 2000}

MaxRequestsChoices == {1, 2}

Config(w, n, m) == [kind |-> "config", windowMs |-> w, maxRequests |-> n, message |-> m]

Configs == {Config(w, n, "Test limit") : w \in Windows, n \in MaxRequestsChoices}

(***************************************************************************)
(* RateLimiterStore                                                        *)
(***************************************************************************)
RequestLog(c, r, q) == [count |-> c, resetTime |-> r, requests |-> q]

MapSetOnce(st, key, log) ==
    IF key \in DOMAIN st THEN st ELSE [k \in DOMAIN st \cup {key} |-> IF k = key THEN log ELSE st[k]]

\* Map.set(key, log)
MapSet(st, key, log) == [k \in DOMAIN st \cup {key} |-> IF k = key THEN log ELSE st[k]]

\* Map.delete(key)
MapDelete(st, key) == [k \in DOMAIN st \ {key} |-> st[k]]

ExpiredLate(st, key, t) == key \notin DOMAIN st \/ st[key].resetTime < t

ExpiredEarly(st, key, t) == key \notin DOMAIN st \/ st[key].resetTime <= t + 500

\* the window test of check: a missing log or one whose resetTime has passed is replaced
Expired(st, key, t) == key \notin DOMAIN st \/ st[key].resetTime <= t

CurrentLogRenewed(st, key, config, t) ==
    IF Expired(st, key, t)
    THEN RequestLog(0, t + config.windowMs, <<>>)
    ELSE [st[key] EXCEPT !.resetTime = t + config.windowMs]

\* the log check works on: a new, empty one, or the stored one
CurrentLog(st, key, config, t) ==
    IF Expired(st, key, t)
    THEN RequestLog(0, t + config.windowMs, <<>>)
    ELSE st[key]

\* log.requests.filter(timestamp => timestamp > now - config.windowMs)
Prune(requests, config, t) == SelectSeq(requests, LAMBDA ts : ts > t - config.windowMs)

RetryAfterFloor(requests, config, t) ==
    IF Len(requests) = 0
    THEN NaN
    ELSE Num((requests[1] + config.windowMs - t) \div 1000)

RetryAfterMillis(requests, config, t) ==
    IF Len(requests) = 0
    THEN NaN
    ELSE Num(requests[1] + config.windowMs - t)

\* Math.ceil((oldestRequest + config.windowMs - now) / 1000); requests[0] of an
\* empty array is undefined, and the arithmetic then yields NaN
RetryAfter(requests, config, t) ==
    IF Len(requests) = 0
    THEN NaN
    ELSE Num(CeilDiv(requests[1] + config.windowMs - t, 1000))

LimitExceededOffByOne(currentCount, config) == currentCount > config.maxRequests

LimitExceededEarly(currentCount, config) == currentCount + 1 >= config.maxRequests

\* the limit test of check
LimitExceeded(currentCount, config) == currentCount >= config.maxRequests

Result(ok, lim, rem, rst, ra) ==
    [kind |-> "result", success |-> ok, limit |-> lim, remaining |-> rem,
     reset |-> rst, retryAfter |-> ra]

\* RateLimiterStore.check(key, config) at time t: the store it leaves, and the
\* result it returns or the fact that it threw.  Reading a property of an
\* undefined config throws a TypeError before anything is stored.
StoreCheck(st, key, config, t) ==
    IF config.kind = "undefined"
    THEN [threw |-> TRUE, store |-> st, result |-> Undefined]
    ELSE
      LET log0 == CurrentLog(st, key, config, t)
          requests == Prune(log0.requests, config, t)
          currentCount == Len(requests)
          remaining == Max(0, config.maxRequests - currentCount)
      IN  IF LimitExceeded(currentCount, config)
          THEN [threw |-> FALSE,
                store |-> MapSet(st, key, RequestLog(log0.count, log0.resetTime, requests)),
                result |-> Result(FALSE, config.maxRequests, 0, log0.resetTime,
                                  RetryAfter(requests, config, t))]
          ELSE [threw |-> FALSE,
                store |-> MapSet(st, key, RequestLog(currentCount + 1, log0.resetTime,
                                                     Append(requests, t))),
                result |-> Result(TRUE, config.maxRequests, remaining - 1,
                                  log0.resetTime, Undefined)]

StoreResetNothing(st, key) == st

StoreResetAll(st, key) == << >>

\* RateLimiterStore.reset(key)
StoreReset(st, key) == MapDelete(st, key)

StoreCleanupEager(st, t) ==
    LET keep == {k \in DOMAIN st : ~(st[k].resetTime < t + 1000)}
    IN  [k \in keep |-> st[k]]

\* RateLimiterStore.cleanup() at time t
StoreCleanup(st, t) ==
    LET keep == {k \in DOMAIN st : ~(st[k].resetTime < t)}
    IN  [k \in keep |-> st[k]]

(***************************************************************************)
(* checkMultipleRateLimits                                                 *)
(***************************************************************************)
SubKeyShared(identifier, name) == identifier

\* `${identifier}:${name}`
SubKey(identifier, name) == identifier \o ":" \o name

StopsNever(result) == FALSE

\* if (!result.success) return { name, result }
Stops(result) == ~result.success

NamedPolicy(name, config) == [name |-> name, config |-> config]

\* the for loop over configs, from the store st on; evals lists the checks made so far,
\* each with its key, its policy and its result
RECURSIVE MultiLoop(_, _, _, _, _)
MultiLoop(st, identifier, configs, t, evals) ==
    IF configs = << >>
    THEN [threw |-> FALSE, store |-> st, returned |-> Null, evals |-> evals]
    ELSE
      LET name == Head(configs).name
          config == Head(configs).config
          key == SubKey(identifier, name)
          out == StoreCheck(st, key, config, t)
          done == Append(evals, [key |-> key, config |-> config, result |-> out.result])
      IN  IF out.threw
          THEN [threw |-> TRUE, store |-> out.store, returned |-> Undefined, evals |-> evals]
          ELSE IF Stops(out.result)
               THEN [threw |-> FALSE, store |-> out.store,
                     returned |-> [kind |-> "failed", name |-> name, result |-> out.result],
                     evals |-> done]
               ELSE MultiLoop(out.store, identifier, Tail(configs), t, done)

\* checkMultipleRateLimits(identifier, configs) at time t
CheckMultiple(st, identifier, configs, t) == MultiLoop(st, identifier, configs, t, << >>)

(***************************************************************************)
(* Identity resolution.  A header value is the sequence of its pieces: a   *)
(* comma, a space, or a stretch of text that holds neither.                *)
(***************************************************************************)
\* split(',')[0]: the pieces before the first comma
RECURSIVE FirstField(_)
FirstField(pieces) ==
    IF pieces = << >> \/ Head(pieces) = "," THEN << >>
    ELSE <<Head(pieces)>> \o FirstField(Tail(pieces))

RECURSIVE TrimStart(_)
TrimStart(pieces) ==
    IF pieces # << >> /\ Head(pieces) = " " THEN TrimStart(Tail(pieces)) ELSE pieces

RECURSIVE TrimEnd(_)
TrimEnd(pieces) ==
    IF pieces # << >> /\ pieces[Len(pieces)] = " "
    THEN TrimEnd(SubSeq(pieces, 1, Len(pieces) - 1))
    ELSE pieces

\* String.prototype.trim()
Trim(pieces) == TrimEnd(TrimStart(pieces))

\* the string the pieces spell
RECURSIVE Join(_)
Join(pieces) == IF pieces = << >> THEN "" ELSE Head(pieces) \o Join(Tail(pieces))

Headers(forwarded, realIp) == [forwarded |-> forwarded, realIp |-> realIp]

\* getClientIp(headers); headers.get gives null for a header that is not there
GetClientIp(headers) ==
    IF headers.forwarded.kind = "header" /\ headers.forwarded.pieces # << >>
    THEN Str(Join(Trim(FirstField(headers.forwarded.pieces))))
    ELSE IF TruthyStr(headers.realIp) THEN headers.realIp
    ELSE Null

GetRateLimitIdentifierIpFirst(userId, ip) ==
    IF TruthyStr(ip) THEN "ip:" \o ip.s
    ELSE IF TruthyStr(userId) THEN "user:" \o userId.s
    ELSE "anonymous"

\* getRateLimitIdentifier(userId, ip)
GetRateLimitIdentifier(userId, ip) ==
    IF TruthyStr(userId) THEN "user:" \o userId.s
    ELSE IF TruthyStr(ip) THEN "ip:" \o ip.s
    ELSE "anonymous"

(***************************************************************************)
(* The HTTP adapter.  auth() either resolves to a user id (or null) or     *)
(* rejects.                                                                *)
(***************************************************************************)
AuthThrows == [kind |-> "throws"]

AuthUser(userId) == [kind |-> "resolved", userId |-> userId]

\* whether auth() is called and rejects: the inner try/catch then leaves userId null
AuthFailed(skipAuthentication, authOutcome) ==
    ~skipAuthentication /\ authOutcome.kind = "throws"

\* the userId after the inner try/catch
AuthUserId(skipAuthentication, authOutcome) ==
    IF skipAuthentication \/ authOutcome.kind = "throws" THEN Null ELSE authOutcome.userId

CreateRateLimitHeadersNoRetry(result) ==
    [h \in {"X-RateLimit-Limit", "X-RateLimit-Remaining", "X-RateLimit-Reset"} |->
        CASE h = "X-RateLimit-Limit" -> NumberToString(result.limit)
          [] h = "X-RateLimit-Remaining" -> NumberToString(result.remaining)
          [] h = "X-RateLimit-Reset" -> NumberToString(result.reset)]

\* createRateLimitHeaders(result)
CreateRateLimitHeaders(result) ==
    LET names == {"X-RateLimit-Limit", "X-RateLimit-Remaining", "X-RateLimit-Reset"}
                   \cup (IF TruthyNum(result.retryAfter) THEN {"Retry-After"} ELSE {})
    IN  [h \in names |->
            CASE h = "X-RateLimit-Limit" -> NumberToString(result.limit)
              [] h = "X-RateLimit-Remaining" -> NumberToString(result.remaining)
              [] h = "X-RateLimit-Reset" -> NumberToString(result.reset)
              [] h = "Retry-After" -> NumberToString(result.retryAfter.n)]

\* config.message || 'Rate limit exceeded'
MessageOf(config) ==
    IF config.kind = "config" /\ config.message # "" THEN config.message
    ELSE "Rate limit exceeded"

\* NextResponse.json(body, { status: 429, headers })
TooManyRequests(message, limitType, result) ==
    [kind |-> "response", status |-> 429,
     body |-> [error |-> message, limitType |-> limitType, limit |-> result.limit,
               remaining |-> result.remaining, reset |-> result.reset,
               retryAfter |-> result.retryAfter],
     headers |-> CreateRateLimitHeaders(result)]

FailOpenNot(body) ==
    IF body.threw
    THEN [body EXCEPT !.response = Undefined, !.rejected = TRUE]
    ELSE body

\* the outer catch: whatever the try block threw, the call resolves to null
FailOpen(body) ==
    IF body.threw
    THEN [body EXCEPT !.response = Null, !.rejected = FALSE]
    ELSE body

\* the try block of rateLimitMiddleware(request, options) at time t, auth() ending as
\* authOutcome: the store it leaves and the response it returns, or the fact that it threw
RateLimitTry(st, headers, options, authOutcome, t) ==
    LET custom == TruthyStr(options.identifier)
        userId == IF custom THEN Null
                  ELSE AuthUserId(options.skipAuthentication, authOutcome)
        ip == IF custom THEN Null ELSE GetClientIp(headers)
        identifier == IF custom THEN options.identifier.s
                      ELSE GetRateLimitIdentifier(userId, ip)
        out == StoreCheck(st, identifier, options.config, t)
    IN  [store |-> out.store,
         custom |-> options.identifier, userId |-> userId, ip |-> ip,
         identifier |-> identifier,
         authThrew |-> ~custom /\ AuthFailed(options.skipAuthentication, authOutcome),
         threw |-> out.threw,
         result |-> out.result,
         rejected |-> FALSE,
         response |-> IF out.threw THEN Undefined
                      ELSE IF ~out.result.success
                           THEN TooManyRequests(MessageOf(options.config), Undefined, out.result)
                           ELSE Null]

\* rateLimitMiddleware(request, options)
RateLimitMiddlewareCall(st, headers, options, authOutcome, t) ==
    FailOpen(RateLimitTry(st, headers, options, authOutcome, t))

\* configs.find(c => c.name === name)
RECURSIVE Find(_, _)
Find(configs, name) ==
    IF configs = << >> THEN Undefined
    ELSE IF Head(configs).name = name THEN Head(configs)
    ELSE Find(Tail(configs), name)

\* the try block of checkMultipleRateLimitsMiddleware(request, configs, skipAuthentication)
MultipleTry(st, headers, configs, skipAuthentication, authOutcome, t) ==
    LET userId == AuthUserId(skipAuthentication, authOutcome)
        ip == GetClientIp(headers)
        identifier == GetRateLimitIdentifier(userId, ip)
        out == CheckMultiple(st, identifier, configs, t)
    IN  [store |-> out.store,
         custom |-> Undefined, userId |-> userId, ip |-> ip, identifier |-> identifier,
         authThrew |-> AuthFailed(skipAuthentication, authOutcome),
         threw |-> out.threw,
         result |-> out.returned,
         rejected |-> FALSE,
         response |-> IF out.threw THEN Undefined
                      ELSE IF out.returned.kind = "failed"
                           THEN TooManyRequests(
                                    MessageOf(Find(configs, out.returned.name).config),
                                    Str(out.returned.name), out.returned.result)
                           ELSE Null]

\* checkMultipleRateLimitsMiddleware(request, configs, skipAuthentication)
MultipleMiddlewareCall(st, headers, configs, skipAuthentication, authOutcome, t) ==
    FailOpen(MultipleTry(st, headers, configs, skipAuthentication, authOutcome, t))

(***************************************************************************)
(* History of the calls made on one key.  It records what was called and   *)
(* what came back; no operation of the program reads it.                   *)
(*   pol       the policy the key was checked with (undefined: never       *)
(*             checked; "mixed": checked with more than one)               *)
(*   wasReset  resetRateLimit was called on the key                        *)
(*   acc       the times of the allowed checks of the trailing two         *)
(*             seconds, kept while the key has one policy and no reset     *)
(*   lastAcc   the time of the latest allowed check                        *)
(*   lastOk    the outcome of the latest check                             *)
(*   run       since the key last had no log: the time of the first check, *)
(*             the number of checks (counted to MaxRun) and their policy;  *)
(*             undefined once two policies were used                       *)
(*   logPol    the policy of the checks made on the key's present log      *)
(*             since the check that created it ("mixed": more than one)    *)
(*   unswept   the log the key would have if cleanup had never run, and    *)
(*   unsweptResult  the result the latest check gives on that log          *)
(*   swept     the latest check found no log where that log still is       *)
(*   fw        a fixed-window counter fed with the same checks: the start  *)
(*             of its window and the number of checks it admitted there,   *)
(*   fwOk      and its verdict on the latest check                         *)
(*   denial    the denials since the latest allowed check, all under one   *)
(*             policy: the earliest instant their retryAfter points to,    *)
(*             the latest resetTime they reported, whether each met a log  *)
(*             used with that policy alone, whether a reset came after     *)
(***************************************************************************)
Mixed == [kind |-> "mixed"]

NoHistory ==
    [pol |-> Undefined, wasReset |-> FALSE, acc |-> <<>>, lastAcc |-> Undefined,
     lastOk |-> "none", run |-> Undefined, logPol |-> Undefined,
     unswept |-> Undefined, unsweptResult |-> Undefined, swept |-> FALSE,
     fw |-> Undefined, fwOk |-> "none", denial |-> Undefined]

MonOf(m, key) == IF key \in DOMAIN m THEN m[key] ELSE NoHistory

MaxWindow == CHOOSE w \in Windows : \A v \in Windows : v <= w

MaxRun == 3

Run(s, n, c) == [kind |-> "run", start |-> s, n |-> n, config |-> c]

\* the key is checked with one fixed policy and was never reset
Clean(h) == h.pol.kind = "config" /\ ~h.wasReset

\* the keys whose policy alone is kept
PolicyWatched == {"test-user:minute", "test-user:daily"}

\* the store that holds the log no sweep has touched, and nothing else
Unswept(h, key) == IF h.unswept = Undefined THEN << >> ELSE [k \in {key} |-> h.unswept]

FixedWindow(c, n) == [kind |-> "window", start |-> c, n |-> n]

\* the window of the fixed-window counter at time t: the one it has, or if that one has
\* ended, a new one that opens now
WindowAt(h, config, t) ==
    IF h.fw.kind = "window" /\ t < h.fw.start + config.windowMs
    THEN h.fw
    ELSE FixedWindow(t, 0)

Denial(config, from, resetTime, pure) ==
    [kind |-> "denial", config |-> config, from |-> from, resetTime |-> resetTime,
     pure |-> pure, reset |-> FALSE]

\* the denials counted so far, with the one the result reports
Denied(h, config, t, result, logPol) ==
    IF result.retryAfter.kind # "number" THEN Undefined
    ELSE LET from == t + 1000 * result.retryAfter.n
         IN  IF h.denial.kind = "denial" /\ h.denial.config = config
             THEN [h.denial EXCEPT !.from = Min(@, from),
                                   !.resetTime = Max(@, result.reset),
                                   !.pure = @ /\ logPol = config]
             ELSE Denial(config, from, result.reset, logPol = config)

MonCheck(m, st, key, config, t, out) ==
    LET h == MonOf(m, key)
        pol == IF h.pol.kind = "undefined" \/ h.pol = config THEN config ELSE Mixed
        ok == out.result.success
        run == IF key \notin DOMAIN st THEN Run(t, 1, config)
               ELSE IF h.run.kind = "run" /\ h.run.config = config
                    THEN Run(h.run.start, Min(h.run.n + 1, MaxRun), config)
                    ELSE Undefined
        logPol == IF Expired(st, key, t) \/ h.logPol = config THEN config ELSE Mixed
        shadow == StoreCheck(Unswept(h, key), key, config, t)
        w == WindowAt(h, config, t)
        admits == w.n < config.maxRequests
        h2 == [pol |-> pol,
               wasReset |-> h.wasReset,
               acc |-> IF pol.kind = "config" /\ ~h.wasReset
                       THEN (IF ok THEN Append(h.acc, t) ELSE h.acc)
                       ELSE <<>>,
               lastAcc |-> IF ok THEN Num(t) ELSE h.lastAcc,
               lastOk |-> IF ok THEN "allowed" ELSE "denied",
               run |-> run,
               logPol |-> logPol,
               unswept |-> shadow.store[key],
               unsweptResult |-> shadow.result,
               swept |-> key \notin DOMAIN st /\ h.unswept # Undefined,
               fw |-> IF pol.kind = "config"
                      THEN FixedWindow(w.start, IF admits THEN w.n + 1 ELSE w.n)
                      ELSE Undefined,
               fwOk |-> IF pol.kind # "config" THEN "none"
                        ELSE IF admits THEN "allowed" ELSE "denied",
               denial |-> IF ok THEN Undefined ELSE Denied(h, config, t, out.result, logPol)]
    IN  IF out.threw THEN m
        ELSE IF key \in PolicyWatched THEN MapSet(m, key, [NoHistory EXCEPT !.pol = pol])
        ELSE MapSet(m, key, h2)

MonReset(m, key) ==
    LET h == MonOf(m, key)
    IN  MapSet(m, key, [h EXCEPT !.wasReset = TRUE, !.acc = <<>>, !.logPol = Undefined,
                                 !.unswept = Undefined, !.fw = Undefined,
                                 !.denial = IF @.kind = "denial"
                                            THEN [@ EXCEPT !.reset = TRUE] ELSE @])

MonTick(m, t) ==
    [k \in DOMAIN m |->
        [m[k] EXCEPT !.acc = SelectSeq(@, LAMBDA ts : ts > t - MaxWindow)]]

(***************************************************************************)
(* The dispatch queue of gemini.ts (class RateLimiter).  A closure that    *)
(* execute() has pushed is a task: it is "queued" while in the queue,      *)
(* "waiting" while in the setTimeout of the interval, "running" while      *)
(* fn() is awaited and "settled" once the finally block has run.           *)
(***************************************************************************)
maxConcurrent == 2

minInterval == 2000

\* lastRequestTime = 0 is the epoch, more than minInterval before the process starts
LongAgo == 0 - minInterval

\* a new RateLimiter
NewPacer == [queue |-> << >>, running |-> 0, lastRequestTime |-> LongAgo]

\* the closure execute() pushes
NewTask == [pc |-> "queued", due |-> Null, startedAt |-> Null, settledAt |-> Null,
            outcome |-> Null]

HasSlotOffByOne(running) == running <= maxConcurrent

\* this.running < this.maxConcurrent
HasSlot(running) == running < maxConcurrent

\* the closure after the interval wait: lastRequestTime is set and fn() is called
StartFn(p, i, t) ==
    [pacer |-> [p.pacer EXCEPT !.lastRequestTime = t],
     tasks |-> [p.tasks EXCEPT ![i].pc = "running", ![i].startedAt = t]]

\* the closure from its call to its first await: the setTimeout of the remaining
\* interval, or fn() at once
RunClosure(p, i, t) ==
    LET timeSinceLastRequest == t - p.pacer.lastRequestTime
    IN  IF timeSinceLastRequest < minInterval
        THEN [p EXCEPT !.tasks[i].pc = "waiting",
                       !.tasks[i].due = t + (minInterval - timeSinceLastRequest)]
        ELSE StartFn(p, i, t)

\* processQueue()
ProcessQueue(p, t) ==
    IF HasSlot(p.pacer.running) /\ Len(p.pacer.queue) > 0
    THEN LET next == Head(p.pacer.queue)
         IN  RunClosure([p EXCEPT !.pacer.running = @ + 1, !.pacer.queue = Tail(@)],
                        next, t)
    ELSE p

\* execute(fn): the closure is pushed and processQueue() is called
PacerExecute(p, t) ==
    ProcessQueue([pacer |-> [p.pacer EXCEPT !.queue = Append(@, Len(p.tasks) + 1)],
                  tasks |-> Append(p.tasks, NewTask)], t)

ReleaseNone(running) == running

\* this.running--
Release(running) == running - 1

PacerSettleNoDispatch(p, i, ok, t) ==
    [pacer |-> [p.pacer EXCEPT !.running = Release(@)],
     tasks |-> [p.tasks EXCEPT ![i].pc = "settled", ![i].settledAt = t,
                               ![i].outcome = IF ok THEN "resolved" ELSE "rejected"]]

\* the closure after fn() has settled: resolve or reject, then the finally block
PacerSettle(p, i, ok, t) ==
    ProcessQueue([pacer |-> [p.pacer EXCEPT !.running = Release(@)],
                  tasks |-> [p.tasks EXCEPT ![i].pc = "settled", ![i].settledAt = t,
                                            ![i].outcome = IF ok THEN "resolved"
                                                           ELSE "rejected"]], t)

(***************************************************************************)
(* analyzeImageWithGemini and retryAnalysis.  An error message is the      *)
(* sequence of its pieces; message.includes(piece) asks for one of them.   *)
(***************************************************************************)
Includes(message, piece) == \E k \in 1..Len(message) : message[k] = piece

\* new Error(message)
Error(message) == [kind |-> "error", message |-> message]

\* the catch block of analyzeImageWithGemini: the error it throws for what it caught
GeminiError(caught) ==
    LET errorMessage == IF caught.kind = "error" THEN caught.message
                        ELSE <<"Unknown error">>
    IN  IF Includes(errorMessage, "429") \/ Includes(errorMessage, "quota")
        THEN Error(<<"Gemini API ", "rate limit", " exceeded. ">> \o errorMessage)
        ELSE IF Includes(errorMessage, "API key")
        THEN Error(<<"Gemini ", "API key", " issue. Please check your ", "API key",
                     " configuration.">>)
        ELSE IF Includes(errorMessage, "SAFETY")
        THEN Error(<<"Image content flagged by safety filters. Please try a different image.">>)
        ELSE Error(<<"Failed to analyze image: ">> \o errorMessage)

\* the error of retryAnalysis when the last attempt hit the rate limit
RateLimitExceeded ==
    Error(<<"Gemini API ", "rate limit", " exceeded. Please wait a few minutes before uploading more images, ",
            "or consider upgrading your API plan for higher limits. ",
            "Free tier limits: 15 requests per minute, 1,500 requests per day.">>)

IsRateLimitNever(error) == FALSE

\* isRateLimit
IsRateLimit(error) ==
    LET errorMessage == IF error.kind = "error" THEN error.message ELSE << >>
    IN  \/ Includes(errorMessage, "429")
        \/ Includes(errorMessage, "quota")
        \/ Includes(errorMessage, "rate limit")

RateLimitDelayUncapped(attempt) == 1000 * 2^attempt

\* Math.min(60000, 1000 * Math.pow(2, attempt))
RateLimitDelay(attempt) == Min(60000, 1000 * 2^attempt)

\* 1000 * attempt
OtherDelay(attempt) == 1000 * attempt

\* a call of retryAnalysis before its loop
NewRetry(maxRetries) ==
    [pc |-> "loop", attempt |-> 1, maxRetries |-> maxRetries, lastError |-> Undefined,
     due |-> Null, calls |-> << >>, waits |-> << >>, result |-> Null]

LoopTestOneMore(r) == r.attempt <= r.maxRetries + 1

\* attempt <= maxRetries
LoopTest(r) == r.attempt <= r.maxRetries

\* the head of the for loop at time t: analyzeImageWithGemini is called, or the loop is
\* over and lastError is thrown
RetryLoop(r, t) ==
    IF LoopTest(r)
    THEN [r EXCEPT !.pc = "calling", !.calls = Append(@, t)]
    ELSE [r EXCEPT !.pc = "rejected", !.result = r.lastError]

\* retryAnalysis(imageBuffer, mimeType, maxRetries) up to its first await
RetryStart(maxRetries, t) == RetryLoop(NewRetry(maxRetries), t)

\* analyzeImageWithGemini resolved: its value is returned
RetryReturn(r, value) == [r EXCEPT !.pc = "returned", !.result = value]

\* the setTimeout of a backoff
RetryWait(r, delay, isRateLimit, t) ==
    [r EXCEPT !.pc = "backoff", !.due = t + delay,
              !.waits = Append(@, [attempt |-> r.attempt, delay |-> delay,
                                   isRateLimit |-> isRateLimit, from |-> t])]

\* the catch block of retryAnalysis at time t
RetryCatch(r, error, t) ==
    LET caught == [r EXCEPT !.lastError = error]
        isRateLimit == IsRateLimit(error)
    IN  IF isRateLimit /\ r.attempt < r.maxRetries
        THEN RetryWait(caught, RateLimitDelay(r.attempt), TRUE, t)
        ELSE IF r.attempt < r.maxRetries
        THEN RetryWait(caught, OtherDelay(r.attempt), FALSE, t)
        ELSE IF isRateLimit
        THEN [caught EXCEPT !.pc = "rejected", !.result = RateLimitExceeded]
        ELSE RetryLoop([caught EXCEPT !.attempt = @ + 1], t)

\* the backoff is over at time t: attempt++ and the head of the loop
RetryResume(r, t) == RetryLoop([r EXCEPT !.attempt = @ + 1, !.due = Null], t)

(***************************************************************************)
(* The operations                                                          *)
(***************************************************************************)
Keys == {"user1"}

OtherKeys == {"user2", "user3"}

\* the keys whose history is kept
Watched == Keys \cup PolicyWatched

\* the composite policies: the names of the tests, each with a short strict policy or
\* a long loose one
Identities == {"test-user"}

PolicyNames == {"minute", "daily"}

MultiConfigs == {Config(1000, 1, "Per minute limit"), Config(2000, 2, "Daily limit")}

NamedPolicies == {NamedPolicy(n, c) : n \in PolicyNames, c \in MultiConfigs}

PolicyLists == [1..1 -> NamedPolicies] \cup [1..2 -> NamedPolicies]

\* the requests the HTTP adapter is called with: a policy with or without a message, or
\* no policy at all; auth() rejecting, or resolving with or without a user; no address
\* header, a forwarded-for list, a real-ip header, a forwarded-for list with an empty head
HttpConfigs == {Config(1000, 1, "Test limit"), Config(1000, 1, ""), Undefined}

CustomIdentifiers == {Undefined, Str("custom-id")}

AuthOutcomes == {AuthThrows, AuthUser(Null), AuthUser(Str("user123"))}

Forwarded(pieces) == [kind |-> "header", pieces |-> pieces]

NoHeaders == Headers(Null, Null)

HeaderChoices ==
    { NoHeaders,
      Headers(Forwarded(<<" ", "192.168.1.1", ",", " ", "10.0.0.2">>), Null),
      Headers(Null, Str("192.168.1.1")),
      Headers(Forwarded(<<",", "10.0.0.2">>), Str("192.168.1.1")) }

\* auth() is not called when authentication is skipped: one outcome stands for all
AuthCases ==
    {c \in [skipAuthentication : BOOLEAN, authOutcome : AuthOutcomes] :
        c.skipAuthentication => c.authOutcome = AuthUser(Null)}

Options(identifier, skipAuthentication, config) ==
    [identifier |-> identifier, skipAuthentication |-> skipAuthentication, config |-> config]

HttpPolicyLists ==
    { <<NamedPolicy("minute", Config(1000, 1, "Per minute limit"))>>,
      <<NamedPolicy("minute", Config(1000, 1, "Per minute limit")),
        NamedPolicy("daily", Undefined)>> }

UserIdChoices == {Undefined, Null, Str(""), Str("user123")}

IpChoices == {Null, Str(""), Str("192.168.1.1")}

Init ==
    /\ now = 0
    /\ store = << >>
    /\ last = [op |-> "init"]
    /\ mon = << >>
    /\ pacer = NewPacer
    /\ tasks = << >>
    /\ retry = << >>
    /\ reqs = << >>

\* time passes, up to the instant limit
TickTo(limit) ==
    \E d \in TickSteps :
        /\ now + d <= limit
        /\ now' = now + d
        /\ mon' = MonTick(mon, now + d)
        /\ last' = [op |-> "tick"]
        /\ UNCHANGED <<store, aiVars>>

Tick == TickTo(MaxNow)

TickMulti == TickTo(MaxNowMulti)

TickHttp == TickTo(MaxNowHttp)

\* checkRateLimit(identifier, config)
CheckRateLimit(key, config) ==
    LET out == StoreCheck(store, key, config, now)
    IN  /\ store' = out.store
        /\ mon' = IF key \in Watched THEN MonCheck(mon, store, key, config, now, out) ELSE mon
        /\ last' = [op |-> "check", key |-> key, config |-> config,
                    result |-> out.result, threw |-> out.threw,
                    prev |-> MonOf(mon, key),
                    afterReset |-> last.op = "reset" /\ last.key = key]
        /\ UNCHANGED <<now, aiVars>>

\* resetRateLimit(identifier)
ResetRateLimit(key) ==
    /\ store' = StoreReset(store, key)
    /\ mon' = IF key \in Watched THEN MonReset(mon, key) ELSE mon
    /\ last' = [op |-> "reset", key |-> key]
    /\ UNCHANGED <<now, aiVars>>

\* the history after the checks evals, made in this order at time t from the store st on
RECURSIVE MonEvals(_, _, _, _)
MonEvals(m, st, evals, t) ==
    IF evals = << >> THEN m
    ELSE LET e == Head(evals)
             out == StoreCheck(st, e.key, e.config, t)
         IN  MonEvals(IF e.key \in Watched THEN MonCheck(m, st, e.key, e.config, t, out) ELSE m,
                      out.store, Tail(evals), t)

\* checkMultipleRateLimits(identifier, configs)
CheckMultipleRateLimits(identifier, configs) ==
    LET out == CheckMultiple(store, identifier, configs, now)
    IN  /\ store' = out.store
        /\ mon' = MonEvals(mon, store, out.evals, now)
        /\ last' = [op |-> "multi", identifier |-> identifier, configs |-> configs,
                    returned |-> out.returned, evals |-> out.evals, threw |-> out.threw]
        /\ UNCHANGED <<now, aiVars>>

\* what a call of the HTTP adapter leaves in last
HttpCall(op, config, out) ==
    [op |-> op, config |-> config, custom |-> out.custom, userId |-> out.userId,
     ip |-> out.ip, identifier |-> out.identifier, authThrew |-> out.authThrew,
     threw |-> out.threw, result |-> out.result, response |-> out.response,
     rejected |-> out.rejected]

\* rateLimitMiddleware(request, options)
RateLimitMiddleware(headers, options, authOutcome) ==
    LET out == RateLimitMiddlewareCall(store, headers, options, authOutcome, now)
    IN  /\ store' = out.store
        /\ last' = HttpCall("middleware", options.config, out)
        /\ UNCHANGED <<now, mon, aiVars>>

\* checkMultipleRateLimitsMiddleware(request, configs, skipAuthentication)
CheckMultipleRateLimitsMiddleware(headers, configs, skipAuthentication, authOutcome) ==
    LET out == MultipleMiddlewareCall(store, headers, configs, skipAuthentication,
                                      authOutcome, now)
    IN  /\ store' = out.store
        /\ last' = HttpCall("multiMiddleware", configs, out)
        /\ UNCHANGED <<now, mon, aiVars>>

\* getRateLimitIdentifier(userId, ip), called on its own
ResolveIdentifier(userId, ip) ==
    /\ last' = [op |-> "identify", userId |-> userId, ip |-> ip,
                identifier |-> GetRateLimitIdentifier(userId, ip)]
    /\ UNCHANGED <<now, store, mon, aiVars>>

\* the setInterval callback of the constructor
Cleanup ==
    /\ store' = StoreCleanup(store, now)
    /\ last' = [op |-> "cleanup"]
    /\ UNCHANGED <<now, mon, aiVars>>

Next ==
    \/ Tick
    \/ \E key \in Keys, config \in Configs : CheckRateLimit(key, config)
    \/ \E key \in Keys : ResetRateLimit(key)
    \/ Cleanup

Spec == Init /\ [][Next]_vars

\* two identities, whose histories are not kept
NextKeys ==
    \/ Tick
    \/ \E key \in OtherKeys, config \in Configs : CheckRateLimit(key, config)
    \/ \E key \in OtherKeys : ResetRateLimit(key)
    \/ Cleanup

SpecKeys == Init /\ [][NextKeys]_vars

\* one identity under named policies
NextMulti ==
    \/ TickMulti
    \/ \E identifier \in Identities, configs \in PolicyLists :
          CheckMultipleRateLimits(identifier, configs)
    \/ \E identifier \in Identities : ResetRateLimit(identifier)
    \/ Cleanup

SpecMulti == Init /\ [][NextMulti]_vars

\* requests through the HTTP adapter
NextHttp ==
    \/ TickHttp
    \/ \E headers \in HeaderChoices, identifier \in CustomIdentifiers,
           config \in HttpConfigs, a \in AuthCases :
          RateLimitMiddleware(headers, Options(identifier, a.skipAuthentication, config),
                              a.authOutcome)
    \/ \E userId \in UserIdChoices, ip \in IpChoices : ResolveIdentifier(userId, ip)

SpecHttp == Init /\ [][NextHttp]_vars

\* requests that carry no address header, through both entry points of the HTTP adapter
NextFailOpen ==
    \/ TickHttp
    \/ \E config \in HttpConfigs, a \in AuthCases :
          RateLimitMiddleware(NoHeaders, Options(Undefined, a.skipAuthentication, config),
                              a.authOutcome)
    \/ \E configs \in HttpPolicyLists, a \in AuthCases :
          CheckMultipleRateLimitsMiddleware(NoHeaders, configs, a.skipAuthentication,
                                            a.authOutcome)

SpecFailOpen == Init /\ [][NextFailOpen]_vars

\* policies no request should be checked with: a window or a limit that is not positive
InvalidConfigs ==
    { Config(0, 1, "Test limit"), Config(0 - 1000, 1, "Test limit"),
      Config(1000, 0, "Test limit"), Config(1000, 0 - 1, "Test limit") }

\* two identities checked with these policies and with one policy of the tests
NextInvalid ==
    \/ TickHttp
    \/ \E key \in OtherKeys, config \in InvalidConfigs \cup {Config(1000, 1, "Test limit")} :
          CheckRateLimit(key, config)
    \/ Cleanup

SpecInvalid == Init /\ [][NextInvalid]_vars

(***************************************************************************)
(* The operations of the dispatch queue, with any task function fn         *)
(***************************************************************************)
MaxTasks == 3

MaxTicksPacer == 3

\* the clock of the dispatch queue advances in steps of a second
PacerSteps == {1000}

MaxNowPacer == MaxTicksPacer * 1000

PacerState == [pacer |-> pacer, tasks |-> tasks]

TaskIds == 1..Len(tasks)

\* time passes, up to the instant limit and as long as a setTimeout is pending
TickPacerTo(limit) ==
    \E d \in PacerSteps :
        /\ \/ now + d <= limit
           \/ \E i \in TaskIds : tasks[i].pc = "waiting" /\ tasks[i].due > now
           \/ \E c \in DOMAIN retry : retry[c].pc = "backoff" /\ retry[c].due > now
        /\ now' = now + d
        /\ last' = [op |-> "tick"]
        /\ UNCHANGED <<store, mon, aiVars>>

TickPacer == TickPacerTo(MaxNowPacer)

\* rateLimiter.execute(fn)
Execute ==
    /\ Len(tasks) < MaxTasks
    /\ LET p == PacerExecute(PacerState, now)
       IN  pacer' = p.pacer /\ tasks' = p.tasks
    /\ last' = [op |-> "execute", task |-> Len(tasks) + 1]
    /\ UNCHANGED <<now, store, mon, retry, reqs>>

\* the setTimeout of task i fires, at its time or later: fn() is called
Wake(i) ==
    /\ tasks[i].pc = "waiting"
    /\ tasks[i].due <= now
    /\ LET p == StartFn(PacerState, i, now)
       IN  pacer' = p.pacer /\ tasks' = p.tasks
    /\ last' = [op |-> "wake", task |-> i]
    /\ UNCHANGED <<now, store, mon, retry, reqs>>

\* the promise of fn() of task i settles
Settle(i, ok) ==
    /\ tasks[i].pc = "running"
    /\ LET p == PacerSettle(PacerState, i, ok, now)
       IN  pacer' = p.pacer /\ tasks' = p.tasks
    /\ last' = [op |-> "settle", task |-> i]
    /\ UNCHANGED <<now, store, mon, retry, reqs>>

NextPacer ==
    \/ TickPacer
    \/ Execute
    \/ \E i \in TaskIds : Wake(i)
    \/ \E i \in TaskIds, ok \in BOOLEAN : Settle(i, ok)

SpecPacer == Init /\ [][NextPacer]_vars

\* the event loop runs every timer that is due, every task function settles, time passes
SpecPacerLive ==
    /\ Init /\ [][NextPacer]_vars
    /\ WF_vars(TickPacer)
    /\ \A i \in 1..MaxTasks : WF_vars(i \in TaskIds /\ Wake(i))
    /\ \A i \in 1..MaxTasks : WF_vars(i \in TaskIds /\ \E ok \in BOOLEAN : Settle(i, ok))

(***************************************************************************)
(* The operations of retryAnalysis, called on its own                      *)
(***************************************************************************)
MaxAttempts == 7

MaxRetriesChoices == 1..MaxAttempts

\* what analyzeImageWithGemini's try block ends with: the feedback items, or something
\* thrown by the API client or by the parsing of the answer
Feedback == [kind |-> "feedback"]

CaughtChoices ==
    { Error(<<"[", "429", " Too Many Requests]">>),
      Error(<<"rate limit", " reached">>),
      Error(<<"API key", " not valid">>),
      Error(<<"Response blocked: ", "SAFETY">>),
      Error(<<"No valid JSON array found in response">>),
      [kind |-> "thrown"] }

GeminiOutcomes == {Feedback} \cup CaughtChoices

\* retryAnalysis(imageBuffer, mimeType, maxRetries)
CallRetryAnalysis(maxRetries) ==
    /\ retry = << >>
    /\ retry' = MapSet(retry, 1, RetryStart(maxRetries, now))
    /\ last' = [op |-> "retryAnalysis", call |-> 1]
    /\ UNCHANGED <<now, store, mon, pacer, tasks, reqs>>

\* what a settled call of analyzeImageWithGemini leaves in last
GeminiCall(c, outcome) ==
    [op |-> "gemini", call |-> c, attempt |-> retry[c].attempt, outcome |-> outcome,
     error |-> IF outcome.kind = "feedback" THEN Null ELSE GeminiError(outcome)]

\* retryAnalysis after the call of analyzeImageWithGemini has settled
RetrySettle(r, outcome, t) ==
    IF outcome.kind = "feedback" THEN RetryReturn(r, outcome)
    ELSE RetryCatch(r, GeminiError(outcome), t)

\* the call of analyzeImageWithGemini made by call c of retryAnalysis settles
GeminiSettles(c, outcome) ==
    /\ retry[c].pc = "calling"
    /\ retry' = [retry EXCEPT ![c] = RetrySettle(@, outcome, now)]
    /\ last' = GeminiCall(c, outcome)
    /\ UNCHANGED <<now, store, mon, pacer, tasks, reqs>>

\* the setTimeout of the backoff of call c fires
BackoffElapses(c) ==
    /\ retry[c].pc = "backoff"
    /\ retry[c].due <= now
    /\ retry' = [retry EXCEPT ![c] = RetryResume(@, now)]
    /\ last' = [op |-> "backoff", call |-> c]
    /\ UNCHANGED <<now, store, mon, pacer, tasks, reqs>>

\* time passes until the pending backoff is over
TickRetry ==
    \E c \in DOMAIN retry :
        /\ retry[c].pc = "backoff"
        /\ retry[c].due > now
        /\ now' = retry[c].due
        /\ last' = [op |-> "tick"]
        /\ UNCHANGED <<store, mon, aiVars>>

NextRetry ==
    \/ \E maxRetries \in MaxRetriesChoices : CallRetryAnalysis(maxRetries)
    \/ \E c \in DOMAIN retry, outcome \in GeminiOutcomes : GeminiSettles(c, outcome)
    \/ \E c \in DOMAIN retry : BackoffElapses(c)
    \/ TickRetry

SpecRetry == Init /\ [][NextRetry]_vars

(***************************************************************************)
(* The operations of analyzeImageWithRateLimit: retryAnalysis behind the   *)
(* dispatch queue.  Call i of retryAnalysis is the task function of task i.*)
(***************************************************************************)
MaxTasksProvider == 2

MaxTicksProvider == 2

MaxNowProvider == MaxTicksProvider * 1000

\* the default of the parameter maxRetries
defaultMaxRetries == 3

ProviderOutcomes ==
    { Feedback,
      Error(<<"[", "429", " Too Many Requests]">>),
      Error(<<"No valid JSON array found in response">>) }

\* fn = () => retryAnalysis(imageBuffer, mimeType): the calls of retryAnalysis after the
\* task functions of the running tasks ts that have none yet were called at time t
StartCalls(rt, ts, t) ==
    [c \in DOMAIN rt \cup {i \in 1..Len(ts) : ts[i].pc = "running"} |->
        IF c \in DOMAIN rt THEN rt[c] ELSE RetryStart(defaultMaxRetries, t)]

\* time passes, up to the instant MaxNowProvider
TickProvider ==
    \E d \in PacerSteps :
        /\ now + d <= MaxNowProvider
        /\ now' = now + d
        /\ last' = [op |-> "tick"]
        /\ UNCHANGED <<store, mon, aiVars>>

\* analyzeImageWithRateLimit(imageBuffer, mimeType)
AnalyzeImageWithRateLimit ==
    /\ Len(tasks) < MaxTasksProvider
    /\ LET p == PacerExecute(PacerState, now)
       IN  /\ pacer' = p.pacer
           /\ tasks' = p.tasks
           /\ retry' = StartCalls(retry, p.tasks, now)
    /\ last' = [op |-> "analyze", task |-> Len(tasks) + 1]
    /\ UNCHANGED <<now, store, mon, reqs>>

\* the setTimeout of task i fires: retryAnalysis is called
WakeProvider(i) ==
    /\ tasks[i].pc = "waiting"
    /\ tasks[i].due <= now
    /\ LET p == StartFn(PacerState, i, now)
       IN  /\ pacer' = p.pacer
           /\ tasks' = p.tasks
           /\ retry' = StartCalls(retry, p.tasks, now)
    /\ last' = [op |-> "wake", task |-> i]
    /\ UNCHANGED <<now, store, mon, reqs>>

\* the call of analyzeImageWithGemini made for task i settles; when retryAnalysis ends
\* with it, the closure of the task goes on to its finally block
GeminiSettlesProvider(i, outcome) ==
    /\ i \in DOMAIN retry
    /\ retry[i].pc = "calling"
    /\ LET r == RetrySettle(retry[i], outcome, now)
       IN  IF r.pc \in {"returned", "rejected"}
           THEN LET p == PacerSettle(PacerState, i, r.pc = "returned", now)
                IN  /\ pacer' = p.pacer
                    /\ tasks' = p.tasks
                    /\ retry' = StartCalls([retry EXCEPT ![i] = r], p.tasks, now)
           ELSE /\ retry' = [retry EXCEPT ![i] = r]
                /\ UNCHANGED <<pacer, tasks>>
    /\ last' = GeminiCall(i, outcome)
    /\ UNCHANGED <<now, store, mon, reqs>>

NextProvider ==
    \/ TickProvider
    \/ AnalyzeImageWithRateLimit
    \/ \E i \in TaskIds : WakeProvider(i)
    \/ \E i \in TaskIds, outcome \in ProviderOutcomes : GeminiSettlesProvider(i, outcome)
    \/ \E i \in DOMAIN retry : BackoffElapses(i)

SpecProvider == Init /\ [][NextProvider]_vars

(***************************************************************************)
(* Requests inside rateLimitMiddleware at the same time.  The function     *)
(* runs without interruption from its call to await auth(), and from the   *)
(* settling of auth() to its return; with a custom identifier or with      *)
(* skipAuthentication it runs from its call to its return.                 *)
(***************************************************************************)
MaxRequests == 3

MaxTicksConc == 2

MaxNowConc == MaxTicksConc * 500

ConcConfigs == {Config(1000, 1, "Test limit"), Config(1000, 2, "Test limit")}

ConcHeaders == Headers(Null, Str("192.168.1.1"))

TickConc == TickTo(MaxNowConc)

\* a request that has returned from rateLimitMiddleware at time t
Done(headers, options, out, t) ==
    [pc |-> "done", headers |-> headers, options |-> options, at |-> t,
     identifier |-> out.identifier, threw |-> out.threw, result |-> out.result,
     response |-> out.response]

\* rateLimitMiddleware(request, options) is called: it runs to await auth(), or to its end
BeginRequest(headers, options) ==
    /\ Len(reqs) < MaxRequests
    /\ \A r \in 1..Len(reqs) : reqs[r].options.config = options.config
    /\ IF TruthyStr(options.identifier) \/ options.skipAuthentication
       THEN LET out == RateLimitMiddlewareCall(store, headers, options, AuthUser(Null), now)
            IN  /\ store' = out.store
                /\ reqs' = Append(reqs, Done(headers, options, out, now))
       ELSE /\ reqs' = Append(reqs, [pc |-> "auth", headers |-> headers,
                                     options |-> options])
            /\ UNCHANGED store
    /\ last' = [op |-> "begin", request |-> Len(reqs) + 1]
    /\ UNCHANGED <<now, mon, pacer, tasks, retry>>

\* auth() settles for request r: rateLimitMiddleware runs to its end
AuthSettles(r, authOutcome) ==
    /\ reqs[r].pc = "auth"
    /\ LET out == RateLimitMiddlewareCall(store, reqs[r].headers, reqs[r].options,
                                          authOutcome, now)
       IN  /\ store' = out.store
           /\ reqs' = [reqs EXCEPT ![r] = Done(reqs[r].headers, reqs[r].options, out, now)]
    /\ last' = [op |-> "authSettles", request |-> r]
    /\ UNCHANGED <<now, mon, pacer, tasks, retry>>

NextConc ==
    \/ TickConc
    \/ \E identifier \in CustomIdentifiers, skip \in BOOLEAN, config \in ConcConfigs :
          BeginRequest(ConcHeaders, Options(identifier, skip, config))
    \/ \E r \in 1..Len(reqs), authOutcome \in AuthOutcomes : AuthSettles(r, authOutcome)

SpecConc == Init /\ [][NextConc]_vars

(***************************************************************************)
(* Properties of the store                                                 *)
(***************************************************************************)
\* the instants of the clock, and the starts t of the intervals (t, t + W] that hold one
Instants == {i * 500 : i \in 0..MaxTicks}

IntervalStarts == {i - MaxWindow : i \in Instants} \cup Instants

\* the number of entries of the sequence of times q that lie in (lo, hi]
CountIn(q, lo, hi) == Cardinality({i \in 1..Len(q) : q[i] > lo /\ q[i] <= hi})

LogOf(st, key) == IF key \in DOMAIN st THEN st[key] ELSE Undefined

\* C1 (bounded admission): for a key checked with one fixed policy (maxRequests N,
\* windowMs W) and never reset, no interval (t, t + W] holds more than N allowed checks.
C1_BoundedAdmission ==
    \A k \in DOMAIN mon :
        Clean(mon[k]) =>
            \A t \in IntervalStarts :
                CountIn(mon[k].acc, t, t + mon[k].pol.windowMs) <= mon[k].pol.maxRequests

\* C2 (decrementing remaining): counting from a key with no log, under one policy with
\* maxRequests N, the k-th check made before the window elapses is allowed with limit N and
\* remaining N - k for k <= N, and every later check of the window is denied with remaining 0.
C2_DecrementingRemaining ==
    (last.op = "check" /\ ~last.threw) =>
        LET r == mon[last.key].run
            N == last.config.maxRequests
        IN  (r.kind = "run" /\ now < r.start + last.config.windowMs) =>
                /\ last.result.limit = N
                /\ IF r.n <= N
                   THEN last.result.success /\ last.result.remaining = N - r.n
                   ELSE ~last.result.success /\ last.result.remaining = 0

\* a third check inside the window of a policy of two requests, denied
C2_Witness ==
    /\ last.op = "check" /\ ~last.threw
    /\ mon[last.key].run.kind = "run"
    /\ now > mon[last.key].run.start
    /\ now < mon[last.key].run.start + last.config.windowMs
    /\ last.config.maxRequests = 2
    /\ mon[last.key].run.n = 3
    /\ ~last.result.success

\* C3 (key isolation): a check or reset on one key leaves the log of every other key as it
\* was, and the result of a check on a key is the one its own log alone gives.
C3_KeyIsolation ==
    [][ /\ \A k \in OtherKeys :
             (last'.op \in {"check", "reset"} /\ last'.key # k) =>
                 LogOf(store', k) = LogOf(store, k)
        /\ (last'.op = "check") =>
             LET own == [k \in DOMAIN store \cap {last'.key} |-> store[k]]
             IN  last'.result = StoreCheck(own, last'.key, last'.config, now).result
      ]_vars

\* user3 is allowed while user2 has used up its two requests
C3_Witness ==
    /\ last.op = "check" /\ last.key = "user3" /\ last.result.success
    /\ "user2" \in DOMAIN store
    /\ store["user2"].resetTime > now
    /\ Len(store["user2"].requests) >= 2

\* C4 (reset clears state): a check that directly follows resetRateLimit on its key is
\* allowed, with remaining = maxRequests - 1.
C4_ResetClearsState ==
    (last.op = "check" /\ ~last.threw /\ last.afterReset) =>
        /\ last.result.success
        /\ last.result.remaining = last.config.maxRequests - 1

\* the key was denied, then reset, then checked
C4_Witness ==
    /\ last.op = "check" /\ ~last.threw /\ last.afterReset
    /\ last.prev.lastOk = "denied"
    /\ last.prev.lastAcc.kind = "number" /\ last.prev.lastAcc.n = now
    /\ last.result.success

\* C5 (sliding recovery): for a key checked with one fixed policy, a check made when every
\* allowed check so far is at least windowMs old is allowed.
C5_SlidingRecovery ==
    (/\ last.op = "check" /\ ~last.threw
     /\ last.prev.pol \in {Undefined, last.config}
     /\ (last.prev.lastAcc.kind = "number" => last.prev.lastAcc.n <= now - last.config.windowMs))
        => last.result.success

\* the check before this one was denied, and this one is allowed after the window
C5_Witness ==
    /\ last.op = "check" /\ ~last.threw
    /\ last.prev.pol = last.config
    /\ last.prev.lastOk = "denied"
    /\ last.prev.lastAcc.kind = "number"
    /\ last.prev.lastAcc.n <= now - last.config.windowMs
    /\ last.result.success

(***************************************************************************)
(* Properties of the composite check                                       *)
(***************************************************************************)
\* the recorded requests of a key, and how many of them carry the time t
Requests(st, key) == IF key \in DOMAIN st THEN st[key].requests ELSE << >>

CountAt(st, key, t) == CountIn(Requests(st, key), t - 1, t)

DistinctNames(configs) ==
    \A i, j \in 1..Len(configs) : i # j => configs[i].name # configs[j].name

\* C6 (composite first failure): the policies are checked in list order, each under the
\* key identity ":" name; the checks stop at the first denied one, whose name and result
\* are returned; null is returned exactly when every policy of the list was allowed.
C6_FirstFailure ==
    (last.op = "multi" /\ ~last.threw) =>
        LET e == last.evals
            cs == last.configs
        IN  /\ Len(e) <= Len(cs)
            /\ \A j \in 1..Len(e) :
                  /\ e[j].key = last.identifier \o ":" \o cs[j].name
                  /\ e[j].config = cs[j].config
                  /\ j < Len(e) => e[j].result.success
            /\ IF last.returned = Null
               THEN Len(e) = Len(cs) /\ \A j \in 1..Len(e) : e[j].result.success
               ELSE /\ Len(e) >= 1
                    /\ ~e[Len(e)].result.success
                    /\ last.returned.kind = "failed"
                    /\ last.returned.name = cs[Len(e)].name
                    /\ last.returned.result = e[Len(e)].result

\* minute is used up and daily is not: the violation reported is "minute"
C6_Witness ==
    /\ last.op = "multi" /\ ~last.threw
    /\ Len(last.configs) = 2
    /\ last.configs[1].name = "minute" /\ last.configs[2].name = "daily"
    /\ last.returned.kind = "failed" /\ last.returned.name = "minute"
    /\ Len(last.evals) = 1
    /\ Requests(store, "test-user:daily") # << >>

\* the effect of a composite check denied at position i, for the positions in ps
PartialSideEffects(ps) ==
    (last'.op = "multi" /\ ~last'.threw /\ last'.returned.kind = "failed" /\ ps) =>
        LET i == Len(last'.evals)
            cs == last'.configs
            SubKeyAt(j) == last'.identifier \o ":" \o cs[j].name
        IN  /\ \A j \in 1..(i - 1) :
                  CountAt(store', SubKeyAt(j), now) = CountAt(store, SubKeyAt(j), now) + 1
            /\ \A j \in i..Len(cs) :
                  Requests(store', SubKeyAt(j)) = Requests(store, SubKeyAt(j))

\* C7 as claimed: when the composite check is denied at position i, every policy before i
\* has recorded exactly one new request under its sub-key, and the sub-keys of position i
\* and of the later positions hold the requests they held before.
C7_AsClaimed == [][PartialSideEffects(TRUE)]_vars

\* C7 (composite partial side effects), amended: the same, for a list of pairwise distinct
\* names whose denied policy is the only one its sub-key was ever checked with.
C7_PartialSideEffects ==
    [][ PartialSideEffects(
          LET i == Len(last'.evals)
              cs == last'.configs
          IN  /\ DistinctNames(cs)
              /\ MonOf(mon, last'.identifier \o ":" \o cs[i].name).pol \in {Undefined, cs[i].config})
      ]_vars

\* denied at the second policy, the first one having recorded this request
C7_Witness ==
    /\ last.op = "multi" /\ ~last.threw
    /\ last.returned.kind = "failed"
    /\ Len(last.evals) = 2
    /\ DistinctNames(last.configs)
    /\ mon[last.evals[2].key].pol = last.configs[2].config
    /\ CountAt(store, last.evals[1].key, now) = 1

(***************************************************************************)
(* Properties of the identity resolver and of the HTTP adapter             *)
(***************************************************************************)
\* the identifier the precedence user id, address, anonymous gives
Precedence(userId, ip, identifier) ==
    IF userId.kind = "string" /\ userId.s # "" THEN identifier = "user:" \o userId.s
    ELSE IF ip.kind = "string" /\ ip.s # "" THEN identifier = "ip:" \o ip.s
    ELSE identifier = "anonymous"

\* C8 (identity precedence): getRateLimitIdentifier gives "user:" userId when there is a
\* user id, else "ip:" ip when there is an address, else "anonymous"; rateLimitMiddleware
\* uses the custom identifier when one is supplied and this precedence otherwise.
C8_IdentityPrecedence ==
    /\ last.op = "identify" => Precedence(last.userId, last.ip, last.identifier)
    /\ last.op = "middleware" =>
          IF last.custom.kind = "string" /\ last.custom.s # ""
          THEN last.identifier = last.custom.s
          ELSE Precedence(last.userId, last.ip, last.identifier)

\* a signed-in user behind a forwarded address is limited as the user
C8_Witness ==
    /\ last.op = "middleware" /\ last.custom = Undefined
    /\ last.userId = Str("user123") /\ last.ip = Str("192.168.1.1")
    /\ last.identifier = "user:user123"
    /\ last.identifier \in DOMAIN store

HttpOps == {"middleware", "multiMiddleware"}

\* C9 as claimed: a call in which auth() or the check throws returns null, and does not
\* reject.
C9_AsClaimed ==
    (last.op \in HttpOps /\ (last.authThrew \/ last.threw)) =>
        last.response = Null /\ ~last.rejected

\* C9 (fail open), amended: a call in which the check throws returns null; a call in which
\* auth() throws goes on without a user id, under the address or the anonymous identity,
\* and is limited as any other; no call rejects.
C9_FailOpen ==
    last.op \in HttpOps =>
        /\ ~last.rejected
        /\ last.threw => last.response = Null
        /\ last.authThrew =>
              /\ last.userId = Null
              /\ Precedence(Null, last.ip, last.identifier)
              /\ ~last.threw =>
                    (last.response = Null <=>
                        IF last.op = "middleware" THEN last.result.success
                        ELSE last.result = Null)

\* the check throws for an identity that is over its limit: the request goes through
C9_Witness ==
    /\ last.op = "middleware" /\ last.threw
    /\ last.response = Null
    /\ last.identifier \in DOMAIN store
    /\ Len(store[last.identifier].requests) >= 1
    /\ store[last.identifier].resetTime > now

\* C10 (denial response): a call of rateLimitMiddleware in which nothing throws returns a
\* response exactly when the check is denied; the response has status 429, a body with the
\* policy message (the default text when the policy has none), limit, remaining 0, reset
\* and retryAfter, and the headers
\* X-RateLimit-Limit, X-RateLimit-Remaining, X-RateLimit-Reset and Retry-After, the last
\* one spelling retryAfter.
C10_DenialResponse ==
    (last.op = "middleware" /\ ~last.threw) =>
        /\ last.response # Null <=> ~last.result.success
        /\ last.response # Null =>
              LET r == last.response
              IN  /\ r.status = 429
                  /\ r.body.error = IF last.config.message # "" THEN last.config.message
                                    ELSE "Rate limit exceeded"
                  /\ r.body.limit = last.config.maxRequests
                  /\ r.body.remaining = 0
                  /\ r.body.reset = store[last.identifier].resetTime
                  /\ r.body.retryAfter.kind = "number"
                  /\ r.body.retryAfter.n >= 1
                  /\ {"X-RateLimit-Limit", "X-RateLimit-Remaining", "X-RateLimit-Reset",
                      "Retry-After"} \subseteq DOMAIN r.headers
                  /\ r.headers["X-RateLimit-Limit"] = NumberToString(r.body.limit)
                  /\ r.headers["X-RateLimit-Remaining"] = "0"
                  /\ r.headers["X-RateLimit-Reset"] = NumberToString(r.body.reset)
                  /\ r.headers["Retry-After"] = NumberToString(r.body.retryAfter.n)

\* a second request of the same identity inside the window is answered 429
C10_Witness ==
    /\ last.op = "middleware" /\ ~last.threw /\ ~last.authThrew
    /\ last.response # Null
    /\ last.response.status = 429
    /\ last.response.body.error = "Test limit"
    /\ last.response.headers["Retry-After"] = "1"

(***************************************************************************)
(* Properties of the dispatch queue                                        *)
(***************************************************************************)
\* the tasks that were dispatched and have not settled, and those whose fn() was called
Unsettled == {i \in TaskIds : tasks[i].pc \in {"waiting", "running"}}

Started == {i \in TaskIds : tasks[i].pc \in {"running", "settled"}}

\* C11 (pacer concurrency cap): at most 2 tasks are dispatched and not settled, waiting
\* out the interval or running; the running counter is their number.
C11_ConcurrencyCap ==
    /\ Cardinality(Unsettled) <= 2
    /\ pacer.running = Cardinality(Unsettled)
    /\ Len(pacer.queue) > 0 => Cardinality(Unsettled) = 2

\* two task functions run, a third task is held in the queue
C11_Witness ==
    /\ Len(tasks) = 3
    /\ tasks[1].pc = "running" /\ tasks[2].pc = "running"
    /\ pacer.queue = <<3>>

\* C12 (pacer spacing): the task functions of any two tasks are started at least
\* 2000 ms apart.
C12_PacerSpacing ==
    \A i \in Started, j \in Started :
        i < j =>
            \/ tasks[j].startedAt - tasks[i].startedAt >= 2000
            \/ tasks[i].startedAt - tasks[j].startedAt >= 2000

\* C13 (pacer FIFO): of two tasks, the one whose execute call came first has its task
\* function started no later than the other's.
C13_PacerFifo ==
    \A i \in Started, j \in Started :
        i < j => tasks[i].startedAt <= tasks[j].startedAt

\* a step in which the task function of task i settles
Settles(i) == i \in TaskIds /\ tasks[i].pc = "running" /\ tasks'[i].pc = "settled"

\* C14 (pacer progress): when a task function settles, resolved or rejected, the running
\* counter drops by one and the head of the queue, if there is one, is dispatched in the
\* same step; and when timers fire and task functions settle, the task function of every
\* task execute was called with is started.
C14_PacerProgress ==
    /\ [][\A i \in 1..MaxTasks :
            Settles(i) =>
                IF pacer.queue = << >>
                THEN pacer'.running = pacer.running - 1 /\ pacer'.queue = << >>
                ELSE /\ pacer'.running = pacer.running
                     /\ pacer'.queue = Tail(pacer.queue)
                     /\ tasks[Head(pacer.queue)].pc = "queued"
                     /\ tasks'[Head(pacer.queue)].pc \in {"waiting", "running"}]_vars
    /\ \A i \in 1..MaxTasks : (Len(tasks) >= i) ~> (i \in Started)

\* the first task was rejected, and the task that was queued behind it runs
C14_Witness ==
    /\ Len(tasks) = 3
    /\ tasks[1].pc = "settled" /\ tasks[1].outcome = "rejected"
    /\ tasks[3].pc = "running"
    /\ tasks[3].startedAt >= tasks[1].settledAt
    /\ tasks[2].pc = "running"

(***************************************************************************)
(* Properties of retryAnalysis                                             *)
(***************************************************************************)
\* C15 (retry attempt bound): a call of retryAnalysis with maxRetries = M makes its
\* attempts one after the other and never more than M; it returns the feedback of the
\* first attempt that resolves, making no attempt after it; when it rejects because the
\* attempts failed, it has made exactly M.
C15_RetryAttemptBound ==
    \A c \in DOMAIN retry :
        LET r == retry[c]
        IN  /\ Len(r.calls) <= r.maxRetries
            /\ \A k \in 1..Len(r.calls) - 1 : r.calls[k] <= r.calls[k + 1]
            /\ r.pc = "calling" => Len(r.waits) = Len(r.calls) - 1
            /\ r.pc = "backoff" => Len(r.waits) = Len(r.calls)
            /\ r.pc = "returned" =>
                  /\ r.result = Feedback
                  /\ last.op = "gemini" /\ last.call = c /\ last.outcome = Feedback
                  /\ Len(r.calls) = last.attempt
                  /\ Len(r.waits) = Len(r.calls) - 1
            /\ r.pc = "rejected" =>
                  /\ Len(r.calls) = r.maxRetries
                  /\ Len(r.waits) = r.maxRetries - 1

\* three attempts were made and failed: the call rejects
C15_Witness ==
    /\ 1 \in DOMAIN retry
    /\ retry[1].maxRetries = 3
    /\ retry[1].pc = "rejected"
    /\ Len(retry[1].calls) = 3

\* the delays after the first, second, ... attempt that hit the rate limit
RateLimitDelays == <<2000, 4000, 8000, 16000, 32000, 60000>>

DelayAfter(k, rateLimit) ==
    IF ~rateLimit THEN 1000 * k
    ELSE IF k <= Len(RateLimitDelays) THEN RateLimitDelays[k]
    ELSE 60000

\* a rate-limit signal: the message of the error tells of 429, of a quota or of a rate
\* limit
RateLimitSignal(error) ==
    \E k \in 1..Len(error.message) : error.message[k] \in {"429", "quota", "rate limit"}

\* C16 (retry delay schedule): after attempt k < maxRetries fails, the next attempt
\* waits min(60000, 1000 * 2^k) ms when the failure is a rate-limit signal and 1000 * k ms
\* otherwise; the rate-limit delays do not decrease with k and stay within 60000 ms; no
\* wait follows the failure of the last attempt.
C16_RetryDelaySchedule ==
    \A c \in DOMAIN retry :
        LET r == retry[c]
        IN  /\ \A k \in 1..Len(r.waits) :
                  LET w == r.waits[k]
                  IN  /\ w.attempt = k /\ k < r.maxRetries
                      /\ w.delay = DelayAfter(k, w.isRateLimit)
                      /\ w.isRateLimit => w.delay <= 60000
                      /\ \A j \in 1..k - 1 :
                            (w.isRateLimit /\ r.waits[j].isRateLimit) =>
                                r.waits[j].delay <= w.delay
                      /\ k < Len(r.calls) => r.calls[k + 1] >= w.from + w.delay
            /\ (last.op = "gemini" /\ last.call = c /\ last.error # Null) =>
                  IF last.attempt < r.maxRetries
                  THEN /\ r.pc = "backoff"
                       /\ r.waits[last.attempt].isRateLimit = RateLimitSignal(last.error)
                       /\ r.waits[last.attempt].from = now
                       /\ r.due = now + DelayAfter(last.attempt, RateLimitSignal(last.error))
                  ELSE r.pc = "rejected" /\ r.due = Null
                       /\ Len(r.waits) = r.maxRetries - 1

\* the sixth attempt hit the rate limit: the seventh waits the capped 60 seconds
C16_Witness ==
    /\ 1 \in DOMAIN retry
    /\ retry[1].pc = "backoff"
    /\ Len(retry[1].waits) = 6
    /\ \A k \in 1..6 : retry[1].waits[k].isRateLimit
    /\ retry[1].waits[6].delay = 60000
    /\ retry[1].waits[5].delay = 32000

\* C17 (retry exhaustion error): a call of retryAnalysis whose attempts all failed rejects
\* with the error of the last attempt, unless that error is a rate-limit signal: then it
\* rejects with another error, whose message says that the Gemini API rate limit was
\* exceeded.
C17_RetryExhaustionError ==
    \A c \in DOMAIN retry :
        LET r == retry[c]
        IN  r.pc = "rejected" =>
                /\ last.op = "gemini" /\ last.call = c
                /\ last.attempt = r.maxRetries
                /\ last.error # Null
                /\ IF RateLimitSignal(last.error)
                   THEN /\ r.result # last.error
                        /\ r.result.kind = "error"
                        /\ SubSeq(r.result.message, 1, 3) =
                               <<"Gemini API ", "rate limit", " exceeded. Please wait a few minutes before uploading more images, ">>
                   ELSE r.result = last.error

\* the last attempt was answered 429: the call rejects with the rate-limit error
C17_Witness ==
    /\ 1 \in DOMAIN retry
    /\ retry[1].pc = "rejected"
    /\ retry[1].maxRetries = 3
    /\ last.op = "gemini"
    /\ last.outcome = Error(<<"[", "429", " Too Many Requests]">>)
    /\ retry[1].result = RateLimitExceeded

\* the errors of analyzeImageWithGemini for an API key problem and for a safety block
NonRetryable ==
    { Error(<<"Gemini ", "API key", " issue. Please check your ", "API key",
              " configuration.">>),
      Error(<<"Image content flagged by safety filters. Please try a different image.">>) }

\* C18 (non-retryable failures): when an attempt fails with the API key error or with the
\* safety error, retryAnalysis rejects with that error at once: no backoff, no further
\* attempt.
C18_NonRetryable ==
    \A c \in DOMAIN retry :
        (last.op = "gemini" /\ last.call = c /\ last.error \in NonRetryable) =>
            /\ retry[c].pc = "rejected"
            /\ retry[c].result = last.error

(***************************************************************************)
(* Properties of requests in flight together, and of the calls that reach  *)
(* the Gemini API                                                          *)
(***************************************************************************)
\* the requests that have been checked under key since its stored log was opened
InWindow(key) ==
    {r \in 1..Len(reqs) :
        /\ reqs[r].pc = "done"
        /\ reqs[r].identifier = key
        /\ ~reqs[r].threw
        /\ reqs[r].at >= store[key].resetTime - reqs[r].options.config.windowMs}

Allowed(key) == {r \in InWindow(key) : reqs[r].result.success}

\* C19 (atomic check per key): of the K checks that requests in flight together make on
\* one key with one policy inside one window, min(K, maxRequests) succeed, and the log of
\* the key holds one timestamp for each of them, the time of its check.
C19_AtomicCheck ==
    \A key \in DOMAIN store :
        LET K == Cardinality(InWindow(key))
            N == reqs[1].options.config.maxRequests
            requests == store[key].requests
        IN  /\ Cardinality(Allowed(key)) = Min(K, N)
            /\ Len(requests) = Cardinality(Allowed(key))
            /\ \A t \in {reqs[r].at : r \in Allowed(key)} :
                  Cardinality({k \in 1..Len(requests) : requests[k] = t})
                      = Cardinality({r \in Allowed(key) : reqs[r].at = t})

\* three requests were awaiting auth() together and were then checked under one key with
\* a policy of two: the third to be checked is denied
C19_Witness ==
    /\ Len(reqs) = 3
    /\ \A r \in 1..3 : /\ reqs[r].pc = "done"
                       /\ reqs[r].identifier = "user:user123"
                       /\ reqs[r].at = 500
                       /\ reqs[r].options.config.maxRequests = 2
    /\ ~reqs[1].result.success
    /\ reqs[2].result.success /\ reqs[3].result.success
    /\ store["user:user123"].requests = <<500, 500>>

\* the calls of analyzeImageWithGemini that were started: call k of retryAnalysis c
GeminiCalls == {<<c, k>> : c \in DOMAIN retry, k \in 1..MaxAttempts}

\* C20 (provider request spacing): any two calls of analyzeImageWithGemini made through
\* analyzeImageWithRateLimit, first attempts and retries alike, start at least 2000 ms
\* apart.
C20_ProviderSpacing ==
    \A a \in GeminiCalls, b \in GeminiCalls :
        (/\ a # b
         /\ a[2] <= Len(retry[a[1]].calls)
         /\ b[2] <= Len(retry[b[1]].calls)) =>
            \/ retry[a[1]].calls[a[2]] - retry[b[1]].calls[b[2]] >= 2000
            \/ retry[b[1]].calls[b[2]] - retry[a[1]].calls[a[2]] >= 2000

(***************************************************************************)
(* Properties of the window, of retryAfter and of the sweep                *)
(***************************************************************************)
\* C21 (window renewal keeps history): a check on a key whose resetTime has passed renews
\* resetTime to now + windowMs and keeps the recorded timestamps newer than
\* now - windowMs; these count toward maxRequests in this check and stay in the log.
C21_RenewalKeepsHistory ==
    [][ (/\ last'.op = "check" /\ ~last'.threw
         /\ last'.key \in DOMAIN store
         /\ store[last'.key].resetTime <= now) =>
            LET kept == Prune(store[last'.key].requests, last'.config, now)
                log == store'[last'.key]
            IN  /\ log.resetTime = now + last'.config.windowMs
                /\ last'.result.success = (Len(kept) < last'.config.maxRequests)
                /\ log.requests = IF last'.result.success THEN Append(kept, now) ELSE kept
      ]_vars

\* C22 (retryAfter value): a denied check carries retryAfter = the least integer r with
\* 1000 * r >= requests[0] + windowMs - now, requests[0] being the oldest timestamp of the
\* log, and r >= 1; an allowed check carries no retryAfter.
C22_RetryAfterValue ==
    (last.op = "check" /\ ~last.threw) =>
        IF last.result.success
        THEN last.result.retryAfter = Undefined
        ELSE /\ last.key \in DOMAIN store
             /\ Len(store[last.key].requests) > 0
             /\ last.result.retryAfter.kind = "number"
             /\ LET oldestRequest == store[last.key].requests[1]
                    ms == oldestRequest + last.config.windowMs - now
                    r == last.result.retryAfter.n
                IN  /\ 1000 * r >= ms
                    /\ 1000 * (r - 1) < ms
                    /\ r >= 1

\* a denial a second and a half before the oldest request leaves the window: retryAfter 2
C22_Witness ==
    /\ last.op = "check" /\ ~last.threw /\ ~last.result.success
    /\ store[last.key].requests[1] + last.config.windowMs - now = 1500
    /\ last.result.retryAfter = Num(2)

\* C23 (denials are not recorded): a denied check on a log that was used with this policy
\* alone leaves the log, its timestamps and its resetTime, and the rest of the store as
\* they were.
C23_DenialsNotRecorded ==
    [][ (/\ last'.op = "check" /\ ~last'.threw /\ ~last'.result.success
         /\ last'.prev.logPol = last'.config) =>
            /\ last'.key \in DOMAIN store
            /\ store'[last'.key].requests = store[last'.key].requests
            /\ store'[last'.key].resetTime = store[last'.key].resetTime
            /\ store' = store
      ]_vars

\* a second denial in a row, later than the allowed check that filled the window
C23_Witness ==
    /\ last.op = "check" /\ ~last.threw /\ ~last.result.success
    /\ last.prev.logPol = last.config
    /\ last.prev.lastOk = "denied"
    /\ last.prev.lastAcc.kind = "number" /\ last.prev.lastAcc.n < now
    /\ store[last.key].resetTime > now

\* a policy whose window or limit is not positive
Invalid(config) == config.windowMs <= 0 \/ config.maxRequests <= 0

\* C24 (invalid policy): a check with a policy whose windowMs or maxRequests is not
\* positive raises at call time, returns no result and leaves the store unchanged.
C24_InvalidPolicyRaises ==
    [][ (last'.op = "check" /\ Invalid(last'.config)) =>
            (last'.threw /\ store' = store)
      ]_vars

\* C25 (reset by identity covers composite counters): the checkMultipleRateLimits that
\* directly follows resetRateLimit on its identity, with policies of distinct names,
\* returns null, whatever was recorded before against the identity's counters.
C25_ResetCoversComposite ==
    [][ (/\ last.op = "reset" /\ last'.op = "multi"
         /\ last'.identifier = last.key
         /\ DistinctNames(last'.configs)) =>
            last'.returned = Null
      ]_vars

\* C26 (the sweep is invisible to decisions): every check returns the result it would
\* return had cleanup never run; cleanup deletes only logs that check would replace by a
\* new one, and leaves every other log as it was.
C26_SweepInvisible ==
    /\ []((last.op = "check" /\ ~last.threw /\ last.key \in Keys) =>
              last.result = mon[last.key].unsweptResult)
    /\ [][ last'.op = "cleanup" =>
              \A k \in DOMAIN store :
                  \/ k \in DOMAIN store' /\ store'[k] = store[k]
                  \/ k \notin DOMAIN store' /\ store[k].resetTime < now /\ Expired(store, k, now)
         ]_vars

\* a check on a key whose log the sweep had deleted, made after the window of a policy
\* of two requests was filled
C26_Witness ==
    /\ last.op = "check" /\ ~last.threw /\ last.key \in Keys
    /\ mon[last.key].swept
    /\ last.prev.lastOk = "denied"
    /\ last.result.success

\* C27 (fixed-window equivalence): for a key checked with one fixed policy, every stored
\* timestamp is >= resetTime - windowMs, requests[0] + windowMs = resetTime, pruning a
\* log whose resetTime has not passed removes nothing, and every check is allowed exactly
\* when a fixed-window counter admits it: one whose window [c, c + windowMs) opens at the
\* first check at or after the end of the window before and admits maxRequests checks.
C27_FixedWindowEquivalence ==
    /\ \A k \in DOMAIN store \cap DOMAIN mon :
           mon[k].pol.kind = "config" =>
               LET log == store[k]
                   W == mon[k].pol.windowMs
               IN  /\ \A i \in 1..Len(log.requests) : log.requests[i] >= log.resetTime - W
                   /\ Len(log.requests) > 0
                   /\ log.requests[1] + W = log.resetTime
                   /\ log.resetTime > now => Prune(log.requests, mon[k].pol, now) = log.requests
    /\ (last.op = "check" /\ ~last.threw /\ mon[last.key].pol.kind = "config") =>
           last.result.success = (mon[last.key].fwOk = "allowed")

\* after a denial in one window, a check at the very end of that window is allowed: it
\* opens the next one
C27_Witness ==
    /\ last.op = "check" /\ ~last.threw
    /\ mon[last.key].pol.kind = "config"
    /\ last.prev.lastOk = "denied"
    /\ last.prev.fw.kind = "window"
    /\ now = last.prev.fw.start + last.config.windowMs
    /\ last.result.success
    /\ mon[last.key].fw.start = now

\* C28 (actual burst bound): for a key checked with one fixed policy (maxRequests N,
\* windowMs W) and never reset, no interval (t, t + W] holds more than 2N - 1 allowed
\* checks.
C28_ActualBurstBound ==
    \A k \in DOMAIN mon :
        Clean(mon[k]) =>
            \A t \in IntervalStarts :
                CountIn(mon[k].acc, t, t + mon[k].pol.windowMs)
                    <= 2 * mon[k].pol.maxRequests - 1

\* three allowed checks in one interval under a policy of two requests per window
C28_Witness ==
    \E k \in DOMAIN mon :
        /\ Clean(mon[k])
        /\ mon[k].pol.maxRequests = 2
        /\ \E t \in IntervalStarts :
               CountIn(mon[k].acc, t, t + mon[k].pol.windowMs) = 3

\* C29 as stated: after a denial at t with retryAfter r, with no allowed check and no other
\* policy on the key since, a check with the same policy at a time >= t + 1000 * r is
\* allowed, and one at a time before the resetTime the denial reported is denied.
C29_AsClaimed ==
    (/\ last.op = "check" /\ ~last.threw
     /\ last.prev.denial.kind = "denial"
     /\ last.prev.denial.config = last.config) =>
        /\ now >= last.prev.denial.from => last.result.success
        /\ now < last.prev.denial.resetTime => ~last.result.success

\* C29 (Retry-After is honoured), amended: the same, for a denial that met a log used with
\* this policy alone since the check that created it, and with no reset of the key since.
C29_RetryAfterHonoured ==
    (/\ last.op = "check" /\ ~last.threw
     /\ last.prev.denial.kind = "denial"
     /\ last.prev.denial.config = last.config
     /\ last.prev.denial.pure
     /\ ~last.prev.denial.reset) =>
        /\ now >= last.prev.denial.from => last.result.success
        /\ now < last.prev.denial.resetTime => ~last.result.success

\* the first check after a denial, made at the very instant retryAfter pointed to, is
\* allowed
C29_Witness ==
    /\ last.op = "check" /\ ~last.threw
    /\ last.prev.denial.kind = "denial"
    /\ last.prev.denial.config = last.config
    /\ last.prev.denial.pure
    /\ ~last.prev.denial.reset
    /\ now = last.prev.denial.from
    /\ last.prev.lastOk = "denied"
    /\ last.result.success

(***************************************************************************)
(* A further property of the dispatch queue                                *)
(***************************************************************************)
\* C30 (pacer work conservation): between the steps of the event loop,
\* 0 <= running <= maxConcurrent; while a closure waits in the queue, running =
\* maxConcurrent; once every submitted task has settled, running = 0 and the queue is
\* empty.
C30_WorkConservation ==
    /\ 0 <= pacer.running /\ pacer.running <= maxConcurrent
    /\ Len(pacer.queue) > 0 => pacer.running = maxConcurrent
    /\ (\A i \in TaskIds : tasks[i].pc = "settled") =>
           (pacer.running = 0 /\ pacer.queue = << >>)

\* a third task waits in the queue behind one that runs and one in its interval wait
C30_Witness ==
    /\ Len(pacer.queue) > 0
    /\ pacer.running = maxConcurrent
    /\ \E i, j \in TaskIds : tasks[i].pc = "running" /\ tasks[j].pc = "waiting"

=============================================================================
